---- MODULE Spec2Model ----
(***************************************************************************)
(* Model of run.js: the auto-deploy bot for the Tempo testnet.             *)
(*                                                                         *)
(* main() compiles the fixed contract, reads pk.txt, builds one wallet per *)
(* key, shuffles the wallets and processes them one after the other; each  *)
(* wallet draws a plan (deployCount, intervalHours) and runs deployCount   *)
(* attempts of deployContract(), each of which talks to the chain and      *)
(* always returns an outcome record.  The outcomes are folded into a       *)
(* summary that is written to deployments.json.                            *)
(*                                                                         *)
(* The program is one sequential async function; an action of the model is *)
(* the code between two suspension points (an awaited chain call or an     *)
(* awaited countdown), the start-up statements of main() being kept apart. *)
(***************************************************************************)
EXTENDS Integers, Sequences, FiniteSets, TLC

(***************************************************************************)
(* Bounds of the model (not program constants).                            *)
(***************************************************************************)
\* longest pk.txt, in lines
MaxLines == 2
\* chain calls that may fail in one run
MaxFaults == 1
\* longest array shuffleArray is applied to on its own
MaxShuffleLen == 3

(***************************************************************************)
(* CONFIG (run.js 5-17) and other literals of the source.                  *)
(***************************************************************************)
MIN_DEPLOY_COUNT == 2
MAX_DEPLOY_COUNT == 4
INTERVAL_OPTIONS == <<6, 12, 24>>
MIN_DELAY_BETWEEN_WALLETS == 5
MAX_DELAY_BETWEEN_WALLETS == 30
EXPLORER_URL == "https://explore.tempo.xyz"
\* the multiplier of walletIndex in deployNumber (run.js 229)
DeployNumberStride == 100
\* process.exit(1) in main's catch (run.js 352)
FatalExitCode == 1
\* the exit code of a process that ends without calling process.exit
NormalExitCode == 0

\* no artifact: compileContract has not returned one
None == [compiled |-> FALSE]
\* no summary object, no deployments.json
NoSummary == [absent |-> TRUE]
Null == "null"
Running == -1

(***************************************************************************)
(* The environment: the lines pk.txt may hold, the addresses of the keys,  *)
(* the compiler's diagnostics, the chain's answers.                        *)
(***************************************************************************)
\* the lines of pk.txt: blank, comment, two well-formed keys (one of them
\* padded with blanks), and a line that is no private key
Lines == {"", "# note", "k1", " k2 ", "zz"}

\* String.prototype.trim on the lines above
trim(line) == IF line = " k2 " THEN "k2" ELSE line

\* line.startsWith('#')
startsWithHash(line) == line = "# note"

\* the files of at most MaxLines lines (split('\n') yields at least one line)
Files == UNION {[1..n -> Lines] : n \in 1..MaxLines}

\* new ethers.Wallet(pk, provider) throws on a string that is no private key
IsPrivateKey(pk) == pk \in {"k1", "k2"}

\* the address a key controls
AddressOf(pk) == IF pk = "k1" THEN "0xA1" ELSE "0xA2"

Addresses == {"0xA1", "0xA2"}

\* what the chain answers to getBalance: a wallet is empty or funded
Balances == {0, 5}

\* output.errors of solc: absent, or a list of diagnostics with a severity
SolcOutputs == {<<>>, <<"warning">>, <<"error">>, <<"warning", "error">>}

\* the address the chain gives a deployed contract, the hash of a transaction
ContractAddresses == {"0xC0"}
TxHashes == {"0xT0"}

\* the messages of the Error a failing chain call rejects with
ChainErrors == {"execution reverted"}

ZeroBalanceError == "Balance 0! Skip wallet ini"

VARIABLES
    pc,               \* where main() is
    compileFailed,    \* solc reported a diagnostic of severity 'error'
    artifact,         \* { abi, bytecode } of compileContract, or None
    pkFile,           \* the lines of pk.txt, once read
    fileRead,         \* pk.txt has been read
    privateKeys,      \* main's privateKeys
    wallets,          \* main's wallets
    shuffledWallets,  \* main's shuffledWallets
    mainI,            \* main's loop variable i
    deployCount,      \* processWallet's plan
    intervalHours,
    procI,            \* processWallet's loop variable i
    results,          \* processWallet's results
    allResults,       \* main's allResults
    contractAddress,  \* deployContract's locals
    txHash,
    calls,            \* the chain calls of the current attempt and their answers
    chainUsed,        \* some chain call was made in this run
    faults,           \* chain calls that failed so far
    planned,          \* the deployCounts drawn so far, one per wallet started
    balance,          \* the chain's balance of every address
    now,              \* the clock: the countdowns that have elapsed
    summary,          \* main's summary, or NoSummary
    report,           \* the content of deployments.json, or NoSummary
    writes,           \* how often deployments.json was written
    exitCode,         \* the process's exit code, or Running
    lastWait,         \* the seconds of the countdown between two attempts or
                      \* two wallets that has just elapsed, or 0
    deployWaits,      \* the countdowns between attempts of the current wallet
    walletWaits       \* the countdowns between wallets of this run

vars == <<pc, compileFailed, artifact, pkFile, fileRead, privateKeys,
          wallets, shuffledWallets, mainI,
          deployCount, intervalHours, procI, results, allResults,
          contractAddress, txHash, calls, chainUsed, faults, planned, balance,
          now, summary, report, writes, exitCode, lastWait, deployWaits,
          walletWaits>>


(***************************************************************************)
(* Pure functions of the source.                                           *)
(***************************************************************************)
\* Array.prototype.map on a sequence
Map(f(_), s) == [k \in 1..Len(s) |-> f(s[k])]

CompileError == "Contract compilation failed"

\* compileContract printing the diagnostics without throwing
compileContractLogsOnly(errors) ==
    [threw |-> FALSE, abi |-> "abi", bytecode |-> "0xbytecode"]

\* compileContract (run.js 36-77): throws when solc reports a diagnostic of
\* severity 'error', and returns the artifact otherwise
compileContract(errors) ==
    IF Len(SelectSeq(errors, LAMBDA e : e = "error")) > 0
    THEN [threw |-> TRUE, message |-> CompileError]
    ELSE [threw |-> FALSE, abi |-> "abi", bytecode |-> "0xbytecode"]

KeepsLine(line) == line # "" /\ ~startsWithHash(line)

\* getPrivateKeys (run.js 79-84) on the lines of pk.txt
getPrivateKeys(file) == SelectSeq(Map(trim, file), KeepsLine)

\* the check of the credentials comparing with < instead of ===
NoPrivateKeysBelowZero(keys) == Len(keys) < 0

\* main's check of the credentials (run.js 262)
NoPrivateKeys(keys) == Len(keys) = 0

\* new ethers.Wallet(pk, provider) (run.js 268)
Wallet(pk) == [privateKey |-> pk, address |-> AddressOf(pk)]

\* the exchange as two assignments, the second reading what the first wrote
SwapInTurn(s, a, b) == [s EXCEPT ![a] = s[b], ![b] = s[b]]

\* [shuffled[i], shuffled[j]] = [shuffled[j], shuffled[i]] (run.js 212)
Swap(s, a, b) == [s EXCEPT ![a] = s[b], ![b] = s[a]]

\* the draws of Math.floor(Math.random() * i): a position never draws itself
ShuffleDrawsBelow(n) == {d \in [2..n -> 1..n] : \A k \in 2..n : d[k] < k}

\* the draws of Math.floor(Math.random() * (i + 1)) for the positions of an
\* array of length n: position i (counted from 1) draws one of 1..i
ShuffleDraws(n) == {d \in [2..n -> 1..n] : \A k \in 2..n : d[k] <= k}

RECURSIVE ShuffleFrom(_, _, _)
ShuffleFrom(s, k, draws) ==
    IF k < 2 THEN s ELSE ShuffleFrom(Swap(s, k, draws[k]), k - 1, draws)

\* shuffleArray (run.js 208-215): Fisher-Yates on a copy of the array
shuffleArray(array, draws) == ShuffleFrom(array, Len(array), draws)

\* getRandomInt without the + 1 in the width of its range
getRandomIntBelowMax(min, max) == min..(max - 1)

\* getRandomInt(min, max) (run.js 86-88): the values it can return
getRandomInt(min, max) == min..max

\* getRandomElement(array) (run.js 90-92): the values it can return
getRandomElement(array) == {array[k] : k \in 1..Len(array)}

\* new Date().toISOString() (run.js 190, 201, 341): the instant, a whole
\* number of milliseconds, written as text
toISOString(instant) == [iso |-> instant]

\* new Date(text) on a text toISOString wrote (run.js 340): its instant
Date(text) == text.iso

\* the deploy number with the deploy count as the stride
DeployNumberDense(walletIndex, i) == (walletIndex * MIN_DEPLOY_COUNT) + i + 1

\* the deploy number of attempt i of the wallet at walletIndex (run.js 229)
DeployNumber(walletIndex, i) == (walletIndex * DeployNumberStride) + i + 1

(***************************************************************************)
(* The initial state: nothing has run; the chain holds some balances.      *)
(***************************************************************************)
Init ==
    /\ pc = "compile"
    /\ compileFailed = FALSE
    /\ artifact = None
    /\ pkFile = <<>>
    /\ fileRead = FALSE
    /\ privateKeys = <<>>
    /\ wallets = <<>>
    /\ shuffledWallets = <<>>
    /\ mainI = 0
    /\ deployCount = 0
    /\ intervalHours = 0
    /\ procI = 0
    /\ results = <<>>
    /\ allResults = <<>>
    /\ contractAddress = Null
    /\ txHash = Null
    /\ calls = <<>>
    /\ chainUsed = FALSE
    /\ faults = 0
    /\ planned = <<>>
    /\ balance \in [Addresses -> Balances]
    /\ now = 0
    /\ summary = NoSummary
    /\ report = NoSummary
    /\ writes = 0
    /\ exitCode = Running
    /\ lastWait = 0
    /\ deployWaits = 0
    /\ walletWaits = 0

\* main's catch logging the error and returning: the process ends with the
\* code of a normal end
FatalReturns ==
    /\ pc' = "exit"
    /\ exitCode' = NormalExitCode

\* main's catch (run.js 350-353): any error thrown in main's try block ends
\* the process with process.exit(1)
Fatal ==
    /\ pc' = "exit"
    /\ exitCode' = FatalExitCode

\* run.js 256-257
Compile ==
    /\ pc = "compile"
    /\ \E errors \in SolcOutputs :
         LET out == compileContract(errors) IN
         /\ compileFailed' = (\E k \in 1..Len(errors) : errors[k] = "error")
         /\ IF out.threw
            THEN /\ Fatal
                 /\ UNCHANGED artifact
            ELSE /\ artifact' = out
                 /\ pc' = "readKeys"
                 /\ UNCHANGED exitCode
    /\ UNCHANGED <<lastWait, deployWaits, walletWaits>>
    /\ UNCHANGED <<pkFile, fileRead, privateKeys, wallets, shuffledWallets,
                   mainI, deployCount, intervalHours, procI, results,
                   allResults, contractAddress, txHash, calls, chainUsed,
                   faults, planned, balance, now, summary, report, writes>>

\* run.js 259-260: pk.txt is read (readFileSync throws when it is missing)
ReadKeys ==
    /\ pc = "readKeys"
    /\ \/ \E file \in Files :
            /\ pkFile' = file
            /\ privateKeys' = getPrivateKeys(file)
            /\ fileRead' = TRUE
            /\ pc' = "checkKeys"
            /\ UNCHANGED exitCode
       \/ /\ Fatal
          /\ UNCHANGED <<pkFile, privateKeys, fileRead>>
    /\ UNCHANGED <<lastWait, deployWaits, walletWaits, compileFailed,
                   artifact, wallets, shuffledWallets, mainI,
                   deployCount, intervalHours, procI, results, allResults,
                   contractAddress, txHash, calls, chainUsed, faults, planned,
                   balance, now, summary, report, writes>>

\* run.js 262-264
CheckKeys ==
    /\ pc = "checkKeys"
    /\ IF NoPrivateKeys(privateKeys)
       THEN Fatal
       ELSE /\ pc' = "wallets"
            /\ UNCHANGED exitCode
    /\ UNCHANGED <<lastWait, deployWaits, walletWaits, compileFailed,
                   artifact, pkFile, fileRead, privateKeys,
                   wallets, shuffledWallets,
                   mainI, deployCount, intervalHours, procI, results,
                   allResults, contractAddress, txHash, calls, chainUsed,
                   faults, planned, balance, now, summary, report, writes>>

\* run.js 266-268: one wallet per key; a key that is none throws
MakeWallets ==
    /\ pc = "wallets"
    /\ IF \A k \in 1..Len(privateKeys) : IsPrivateKey(privateKeys[k])
       THEN /\ wallets' = Map(Wallet, privateKeys)
            /\ pc' = "shuffle"
            /\ UNCHANGED exitCode
       ELSE /\ Fatal
            /\ UNCHANGED wallets
    /\ UNCHANGED <<lastWait, deployWaits, walletWaits, compileFailed,
                   artifact, pkFile, fileRead, privateKeys,
                   shuffledWallets,
                   mainI, deployCount, intervalHours, procI, results,
                   allResults, contractAddress, txHash, calls, chainUsed,
                   faults, planned, balance, now, summary, report, writes>>

\* run.js 269-274
Shuffle ==
    /\ pc = "shuffle"
    /\ \E draws \in ShuffleDraws(Len(wallets)) :
         shuffledWallets' = shuffleArray(wallets, draws)
    /\ mainI' = 0
    /\ allResults' = <<>>
    /\ pc' = "walletLoop"
    /\ UNCHANGED <<lastWait, deployWaits, walletWaits, compileFailed,
                   artifact, pkFile, fileRead, privateKeys, wallets,
                   deployCount, intervalHours, procI, results,
                   contractAddress, txHash, calls, chainUsed,
                   faults, planned, balance, now, summary, report, writes,
                   exitCode>>


(***************************************************************************)
(* processWallet and deployContract.                                       *)
(***************************************************************************)
\* the wallet main's loop is at
CurrentWallet == shuffledWallets[mainI + 1]

\* the outcome deployContract returns from its try block (run.js 184-193)
SuccessOutcome(wallet, address, hash, time, walletIndex, deployNumber) ==
    [success |-> TRUE,
     deployer |-> wallet.address,
     contractAddress |-> address,
     txHash |-> hash,
     explorer |-> <<EXPLORER_URL, "/address/", address>>,
     timestamp |-> toISOString(time),
     walletIndex |-> walletIndex,
     deployNumber |-> deployNumber]

\* the catch block reporting what the attempt had captured before the error
FailureOutcomeWithCaptured(wallet, message, time, walletIndex, deployNumber) ==
    [success |-> FALSE,
     deployer |-> wallet.address,
     contractAddress |-> contractAddress,
     txHash |-> txHash,
     error |-> message,
     timestamp |-> toISOString(time),
     walletIndex |-> walletIndex,
     deployNumber |-> deployNumber]

\* the outcome deployContract returns from its catch block (run.js 195-205)
FailureOutcome(wallet, message, time, walletIndex, deployNumber) ==
    [success |-> FALSE,
     deployer |-> wallet.address,
     error |-> message,
     timestamp |-> toISOString(time),
     walletIndex |-> walletIndex,
     deployNumber |-> deployNumber]

\* balance === 0: a bigint is never strictly equal to a number
IsZeroBalanceNumber(b) == FALSE

\* balance === 0n (run.js 136)
IsZeroBalance(b) == b = 0

\* the loop condition of processWallet (run.js 228)
MoreDeploys(k, count) == k < count

\* the wait before the next attempt made after the last attempt too
WaitsAfterEveryDeploy(k, count) == k < count

\* the condition of the inter-deployment wait (run.js 233)
WaitsAfterDeploy(k, count) == k < count - 1

\* main's loop stopping one wallet early
MoreWalletsButLast(k, count) == k < count - 1

\* the loop condition of main (run.js 276)
MoreWallets(k, count) == k < count

\* the condition of the inter-wallet wait (run.js 281)
WaitsAfterWallet(k, count) == k < count - 1

\* allResults.unshift(...walletResults)
PushAllFront(all, walletResults) == walletResults \o all

\* allResults.push(...walletResults) (run.js 279)
PushAll(all, walletResults) == all \o walletResults

\* deployContract submitting the deployment without the balance query
EnterDeployUnchecked ==
    /\ contractAddress' = Null
    /\ txHash' = Null
    /\ calls' = <<>>
    /\ pc' = "deploy"

\* deployContract is entered for attempt k of the current wallet: its locals
\* are fresh and its first chain call is the balance query
EnterDeploy ==
    /\ contractAddress' = Null
    /\ txHash' = Null
    /\ calls' = <<>>
    /\ pc' = "getBalance"

\* processWallet leaving its loop after a failed attempt
AfterDeployBreakOnFailure ==
    pc' = IF results'[Len(results')].success
             /\ WaitsAfterDeploy(procI, deployCount)
          THEN "deployWait"
          ELSE "walletReturn"

\* processWallet's loop after the body of attempt procI (run.js 233-243):
\* the wait before the next attempt, or the return of the results
AfterDeploy ==
    pc' = IF WaitsAfterDeploy(procI, deployCount) THEN "deployWait"
          ELSE "walletReturn"

\* deployContract returns outcome; processWallet pushes it (run.js 230-231)
Return(outcome) ==
    /\ results' = Append(results, outcome)
    /\ AfterDeploy

\* the success outcome reporting the hash of a transaction in any case
SucceedWithSomeHash(time) ==
    Return(SuccessOutcome(CurrentWallet, contractAddress,
                          CHOOSE h \in TxHashes : TRUE, time,
                          mainI + 1, DeployNumber(mainI, procI)))

\* deployContract returns from its try block (run.js 184-193)
Succeed(time) ==
    Return(SuccessOutcome(CurrentWallet, contractAddress, txHash, time,
                          mainI + 1, DeployNumber(mainI, procI)))

\* an error thrown in deployContract's try block is caught by its catch
Fail(message, time) ==
    Return(FailureOutcome(CurrentWallet, message, time,
                          mainI + 1, DeployNumber(mainI, procI)))

\* a chain call is made and answered: ok, or rejected with an Error
Call(name, ok) ==
    /\ calls' = Append(calls, [name |-> name, ok |-> ok])
    /\ chainUsed' = TRUE

\* the chain call name rejects: one of the run's faults
Rejects(name) ==
    /\ faults < MaxFaults
    /\ faults' = faults + 1
    /\ Call(name, FALSE)

\* the chain call name succeeds
Answers(name) ==
    /\ UNCHANGED faults
    /\ Call(name, TRUE)

\* what no step of deployContract changes
AttemptFrame ==
    UNCHANGED <<deployWaits, walletWaits, compileFailed, artifact, pkFile,
                fileRead, privateKeys, wallets, shuffledWallets,
                mainI, deployCount, intervalHours, procI, allResults, planned,
                balance, now, summary, report, writes, exitCode>>

\* what no step after the balance query changes
StepFrame ==
    /\ AttemptFrame
    /\ UNCHANGED lastWait

\* main's loop (run.js 276-278) and the head of processWallet (run.js
\* 217-230): the plan is drawn and the first attempt begins; after the last
\* wallet main goes on to the summary
WalletLoop ==
    /\ pc = "walletLoop"
    /\ IF MoreWallets(mainI, Len(shuffledWallets))
       THEN /\ \E count \in getRandomInt(MIN_DEPLOY_COUNT, MAX_DEPLOY_COUNT),
                  hours \in getRandomElement(INTERVAL_OPTIONS) :
                  /\ deployCount' = count
                  /\ intervalHours' = hours
                  /\ planned' = Append(planned, count)
                  /\ IF MoreDeploys(0, count)
                     THEN EnterDeploy
                     ELSE /\ pc' = "walletReturn"
                          /\ UNCHANGED <<contractAddress, txHash, calls>>
            /\ results' = <<>>
            /\ procI' = 0
       ELSE /\ pc' = "summary"
            /\ UNCHANGED <<deployCount, intervalHours, planned, results, procI,
                           contractAddress, txHash, calls>>
    /\ lastWait' = 0
    /\ UNCHANGED <<deployWaits, walletWaits, compileFailed, artifact,
                   pkFile, fileRead, privateKeys, wallets, shuffledWallets,
                   mainI, allResults, chainUsed, faults, balance, now, summary,
                   report, writes, exitCode>>

\* run.js 133-147: the balance query; a zero balance throws, otherwise the
\* gas limit is drawn and the deployment is submitted next
GetBalance ==
    /\ pc = "getBalance"
    /\ \/ /\ Rejects("getBalance")
          /\ \E message \in ChainErrors : Fail(message, now)
       \/ /\ Answers("getBalance")
          /\ IF IsZeroBalance(balance[CurrentWallet.address])
             THEN Fail(ZeroBalanceError, now)
             ELSE /\ pc' = "deploy"
                  /\ UNCHANGED results
    /\ UNCHANGED <<contractAddress, txHash>>
    /\ lastWait' = 0
    /\ AttemptFrame

\* run.js 144-147: factory.deploy
Deploy ==
    /\ pc = "deploy"
    /\ \/ /\ Rejects("deploy")
          /\ \E message \in ChainErrors : Fail(message, now)
       \/ /\ Answers("deploy")
          /\ UNCHANGED results
          /\ pc' = "waitForDeployment"
    /\ UNCHANGED <<contractAddress, txHash>>
    /\ StepFrame

\* run.js 150: contract.waitForDeployment
WaitForDeployment ==
    /\ pc = "waitForDeployment"
    /\ \/ /\ Rejects("waitForDeployment")
          /\ \E message \in ChainErrors : Fail(message, now)
       \/ /\ Answers("waitForDeployment")
          /\ UNCHANGED results
          /\ pc' = "getAddress"
    /\ UNCHANGED <<contractAddress, txHash>>
    /\ StepFrame

\* run.js 152-158: contract.getAddress; the contract is deployed
GetAddress ==
    /\ pc = "getAddress"
    /\ \/ /\ Rejects("getAddress")
          /\ \E message \in ChainErrors : Fail(message, now)
          /\ UNCHANGED contractAddress
       \/ /\ Answers("getAddress")
          /\ UNCHANGED results
          /\ contractAddress' \in ContractAddresses
          /\ pc' = "message"
    /\ UNCHANGED txHash
    /\ StepFrame

\* run.js 158-166 and 180-193: the read-back of the message, then the draw
\* of shouldUpdate: the follow-up is paced and sent, or the attempt returns
Message ==
    /\ pc = "message"
    /\ \/ /\ Rejects("message")
          /\ \E message \in ChainErrors : Fail(message, now)
       \/ /\ Answers("message")
          /\ \E shouldUpdate \in BOOLEAN :
               IF shouldUpdate
               THEN /\ pc' = "pace"
                    /\ UNCHANGED results
               ELSE Succeed(now)
    /\ UNCHANGED <<contractAddress, txHash>>
    /\ StepFrame

\* run.js 165-166: countdown(randomDelay) before the follow-up
Pace ==
    /\ pc = "pace"
    /\ now' = now + 1
    /\ pc' = "setMessage"
    /\ UNCHANGED <<results, contractAddress, txHash, calls, chainUsed, faults>>
    /\ UNCHANGED <<lastWait, deployWaits, walletWaits, compileFailed,
                   artifact, pkFile, fileRead, privateKeys,
                   wallets, shuffledWallets,
                   mainI, deployCount, intervalHours, procI, allResults,
                   planned, balance, summary, report, writes, exitCode>>

\* run.js 168-174: contract.setMessage
SetMessage ==
    /\ pc = "setMessage"
    /\ \/ /\ Rejects("setMessage")
          /\ \E message \in ChainErrors : Fail(message, now)
          /\ UNCHANGED txHash
       \/ /\ Answers("setMessage")
          /\ UNCHANGED results
          /\ txHash' \in TxHashes
          /\ pc' = "wait"
    /\ UNCHANGED contractAddress
    /\ StepFrame

\* run.js 175-176: tx.wait
TxWait ==
    /\ pc = "wait"
    /\ \/ /\ Rejects("wait")
          /\ \E message \in ChainErrors : Fail(message, now)
       \/ /\ Answers("wait")
          /\ UNCHANGED results
          /\ pc' = "message2"
    /\ UNCHANGED <<contractAddress, txHash>>
    /\ StepFrame

\* run.js 178-193: the second read of the message, then the return
Message2 ==
    /\ pc = "message2"
    /\ \/ /\ Rejects("message")
          /\ \E message \in ChainErrors : Fail(message, now)
       \/ /\ Answers("message")
          /\ Succeed(now)
    /\ UNCHANGED <<contractAddress, txHash>>
    /\ StepFrame

\* the variations getRandomInt(-600, 600) can draw (run.js 235)
RandomVariations == getRandomInt(-600, 600)

\* the variations a run of main draws from: both ends and the middle
JitterSamples == {v \in {-600, 0, 600} : v \in RandomVariations}

\* the wait with the hours as minutes
TotalWaitOfMinutes(hours, randomVariation) == (hours * 60) + randomVariation

\* totalWait (run.js 234-236)
TotalWait(hours, randomVariation) == (hours * 3600) + randomVariation

\* run.js 233-240 and 228-230: the countdown between two attempts of a
\* wallet, its variation drawn from variations, then the next attempt begins
DeployWaitFrom(variations) ==
    /\ pc = "deployWait"
    /\ \E randomVariation \in variations :
         lastWait' = TotalWait(intervalHours, randomVariation)
    /\ deployWaits' = deployWaits + 1
    /\ now' = now + 1
    /\ procI' = procI + 1
    /\ IF MoreDeploys(procI', deployCount)
       THEN EnterDeploy
       ELSE /\ pc' = "walletReturn"
            /\ UNCHANGED <<contractAddress, txHash, calls>>
    /\ UNCHANGED <<walletWaits, compileFailed, artifact, pkFile, fileRead,
                   privateKeys, wallets, shuffledWallets,
                   mainI, deployCount, intervalHours, results, allResults,
                   chainUsed, faults, planned, balance, summary, report,
                   writes, exitCode>>

\* the countdown between two attempts in a run of main
DeployWait == DeployWaitFrom(JitterSamples)

\* run.js 243 and 279-288: processWallet returns (its locals are gone), main
\* appends the wallet's outcomes and waits before the next wallet, if there
\* is one
WalletReturn ==
    /\ pc = "walletReturn"
    /\ allResults' = PushAll(allResults, results)
    /\ results' = <<>>
    /\ deployCount' = 0
    /\ intervalHours' = 0
    /\ procI' = 0
    /\ contractAddress' = Null
    /\ txHash' = Null
    /\ calls' = <<>>
    /\ deployWaits' = 0
    /\ IF WaitsAfterWallet(mainI, Len(shuffledWallets))
       THEN /\ pc' = "walletWait"
            /\ UNCHANGED mainI
       ELSE /\ pc' = "walletLoop"
            /\ mainI' = mainI + 1
    /\ UNCHANGED <<lastWait, walletWaits, compileFailed, artifact, pkFile,
                   fileRead, privateKeys, wallets, shuffledWallets,
                   chainUsed, faults, planned, balance, now, summary, report,
                   writes, exitCode>>

\* run.js 282-288: the countdown between two wallets
WalletWait ==
    /\ pc = "walletWait"
    /\ \E delaySeconds \in getRandomInt(MIN_DELAY_BETWEEN_WALLETS,
                                          MAX_DELAY_BETWEEN_WALLETS) :
         lastWait' = delaySeconds
    /\ walletWaits' = walletWaits + 1
    /\ now' = now + 1
    /\ mainI' = mainI + 1
    /\ pc' = "walletLoop"
    /\ UNCHANGED <<deployWaits, compileFailed, artifact, pkFile, fileRead,
                   privateKeys, wallets, shuffledWallets,
                   deployCount, intervalHours, procI, results, allResults,
                   contractAddress, txHash, calls, chainUsed, faults, planned,
                   balance, summary, report, writes, exitCode>>


(***************************************************************************)
(* The summary and the report.                                             *)
(***************************************************************************)
\* allResults.filter(r => r.success && r.txHash)
SuccessfulWithTx(all) == SelectSeq(all, LAMBDA r : r.success /\ r.txHash # Null)

\* allResults.filter(r => r.success) (run.js 295)
Successful(all) == SelectSeq(all, LAMBDA r : r.success)

\* allResults.filter(r => !r.success) (run.js 296)
Failed(all) == SelectSeq(all, LAMBDA r : ~r.success)

\* the deployers of the successful outcomes only
UniqueSuccessfulWallets(all) ==
    {all[k].deployer : k \in {j \in 1..Len(all) : all[j].success}}

\* new Set(allResults.map(r => r.deployer)) (run.js 302)
UniqueWallets(all) == {all[k].deployer : k \in 1..Len(all)}

\* the summary taking startTime from the outcome recorded last
SummaryFromLast(all, time) ==
    [totalDeployments |-> Len(all),
     successful |-> Len(Successful(all)),
     failed |-> Len(Failed(all)),
     uniqueWallets |-> Cardinality(UniqueWallets(all)),
     deployments |-> all,
     startTime |-> toISOString(Date(all[Len(all)].timestamp)),
     endTime |-> toISOString(time)]

\* the summary object (run.js 324-342), its metadata left out
Summary(all, time) ==
    [totalDeployments |-> Len(all),
     successful |-> Len(Successful(all)),
     failed |-> Len(Failed(all)),
     uniqueWallets |-> Cardinality(UniqueWallets(all)),
     deployments |-> all,
     startTime |-> toISOString(Date(all[1].timestamp)),
     endTime |-> toISOString(time)]

\* run.js 291-342: the summary is built; with no outcome at all
\* new Date(undefined).toISOString() throws a RangeError
BuildSummary ==
    /\ pc = "summary"
    /\ IF Len(allResults) = 0
       THEN /\ Fatal
            /\ UNCHANGED summary
       ELSE /\ summary' = Summary(allResults, now)
            /\ pc' = "write"
            /\ UNCHANGED exitCode
    /\ UNCHANGED <<lastWait, deployWaits, walletWaits, compileFailed,
                   artifact, pkFile, fileRead, privateKeys,
                   wallets, shuffledWallets,
                   mainI, deployCount, intervalHours, procI, results,
                   allResults, contractAddress, txHash, calls, chainUsed,
                   faults, planned, balance, now, report, writes>>

\* run.js 344-348: deployments.json is written (writeFileSync may throw) and
\* main returns, which ends the process
WriteReport ==
    /\ pc = "write"
    /\ \/ /\ report' = summary
          /\ writes' = writes + 1
          /\ pc' = "done"
          /\ exitCode' = NormalExitCode
       \/ /\ Fatal
          /\ UNCHANGED <<report, writes>>
    /\ UNCHANGED <<lastWait, deployWaits, walletWaits, compileFailed,
                   artifact, pkFile, fileRead, privateKeys,
                   wallets, shuffledWallets,
                   mainI, deployCount, intervalHours, procI, results,
                   allResults, contractAddress, txHash, calls, chainUsed,
                   faults, planned, balance, now, summary>>

Next ==
    \/ Compile
    \/ ReadKeys
    \/ CheckKeys
    \/ MakeWallets
    \/ Shuffle
    \/ WalletLoop
    \/ GetBalance
    \/ Deploy
    \/ WaitForDeployment
    \/ GetAddress
    \/ Message
    \/ Pace
    \/ SetMessage
    \/ TxWait
    \/ Message2
    \/ DeployWait
    \/ WalletReturn
    \/ WalletWait
    \/ BuildSummary
    \/ WriteReport

Spec == Init /\ [][Next]_vars

(***************************************************************************)
(* The wait between two attempts on its own: processWallet has recorded    *)
(* the first outcome of a one-wallet run, the failure of an empty wallet,  *)
(* and draws the wait before the next attempt from every variation that    *)
(* getRandomInt(-600, 600) can return.                                     *)
(***************************************************************************)
InitWait ==
    /\ pc = "deployWait"
    /\ compileFailed = FALSE
    /\ artifact = compileContract(<<>>)
    /\ pkFile = <<"k1">>
    /\ fileRead = TRUE
    /\ privateKeys = getPrivateKeys(pkFile)
    /\ wallets = Map(Wallet, privateKeys)
    /\ shuffledWallets = wallets
    /\ mainI = 0
    /\ deployCount \in getRandomInt(MIN_DEPLOY_COUNT, MAX_DEPLOY_COUNT)
    /\ intervalHours \in getRandomElement(INTERVAL_OPTIONS)
    /\ procI = 0
    /\ results = <<FailureOutcome(Wallet("k1"), ZeroBalanceError, 0, 1,
                                  DeployNumber(0, 0))>>
    /\ allResults = <<>>
    /\ contractAddress = Null
    /\ txHash = Null
    /\ calls = <<[name |-> "getBalance", ok |-> TRUE]>>
    /\ chainUsed = TRUE
    /\ faults = 0
    /\ planned = <<deployCount>>
    /\ balance = [a \in Addresses |-> 0]
    /\ now = 0
    /\ summary = NoSummary
    /\ report = NoSummary
    /\ writes = 0
    /\ exitCode = Running
    /\ lastWait = 0
    /\ deployWaits = 0
    /\ walletWaits = 0

InterDeployWait == DeployWaitFrom(RandomVariations)

NextWait == InterDeployWait

SpecWait == InitWait /\ [][NextWait]_vars

(***************************************************************************)
(* shuffleArray on its own: main is about to shuffle an array of at most   *)
(* MaxShuffleLen items, repeated items and the empty array included; the   *)
(* array is held by wallets and the result by shuffledWallets.             *)
(***************************************************************************)
ShuffleItems == 1..MaxShuffleLen

ShuffleInputs == UNION {[1..n -> ShuffleItems] : n \in 0..MaxShuffleLen}

InitShuffle ==
    /\ pc = "shuffle"
    /\ compileFailed = FALSE
    /\ artifact = compileContract(<<>>)
    /\ pkFile = <<>>
    /\ fileRead = TRUE
    /\ privateKeys = <<>>
    /\ wallets \in ShuffleInputs
    /\ shuffledWallets = <<>>
    /\ mainI = 0
    /\ deployCount = 0
    /\ intervalHours = 0
    /\ procI = 0
    /\ results = <<>>
    /\ allResults = <<>>
    /\ contractAddress = Null
    /\ txHash = Null
    /\ calls = <<>>
    /\ chainUsed = FALSE
    /\ faults = 0
    /\ planned = <<>>
    /\ balance = [a \in Addresses |-> 0]
    /\ now = 0
    /\ summary = NoSummary
    /\ report = NoSummary
    /\ writes = 0
    /\ exitCode = Running
    /\ lastWait = 0
    /\ deployWaits = 0
    /\ walletWaits = 0

NextShuffle == Shuffle

SpecShuffle == InitShuffle /\ [][NextShuffle]_vars

\* the runs whose end is checked: the chain holds one empty and one funded
\* address, so that a run of two wallets meets an empty and a funded wallet,
\* the same empty wallet twice, or the same funded wallet twice
InitFair ==
    /\ Init
    /\ balance = [a \in Addresses |-> IF a = "0xA1" THEN 0 ELSE 5]

\* main is one chain of awaits on the event loop of Node: a synchronous
\* stretch of code runs to its end, every countdown is a finite number of
\* timers that fire, and every chain call that is answered or rejected
\* resumes the code that awaits it; so a step that can be taken is taken
FairSpec == InitFair /\ [][Next]_vars /\ WF_vars(Next)


(***************************************************************************)
(* Properties.                                                             *)
(***************************************************************************)
Last(s) == s[Len(s)]

RECURSIVE SumSeq(_)
SumSeq(s) == IF s = <<>> THEN 0 ELSE s[1] + SumSeq(Tail(s))

\* the outcomes recorded so far, in the order they were recorded
Outcomes == allResults \o results

\* deployContract has just returned to processWallet
Returned == pc \in {"deployWait", "walletReturn"}

\* an attempt is under way
InAttempt ==
    pc \in {"getBalance", "deploy", "waitForDeployment", "getAddress",
            "message", "pace", "setMessage", "wait", "message2"}

\* deployments.json exists
ReportWritten == writes > 0

FailureFields ==
    {"success", "deployer", "error", "timestamp", "walletIndex", "deployNumber"}

\* C1: whenever a chain call of an attempt rejects, or the balance query
\* answers zero, deployContract has returned to processWallet (the process
\* has not exited) an outcome with success = false, the message of the
\* failure as error, and neither contractAddress nor txHash, also when the
\* contract was deployed before the failing call.
C1_FailureBecomesOutcome ==
    (/\ calls # <<>>
     /\ \/ ~Last(calls).ok
        \/ Len(calls) = 1 /\ balance[CurrentWallet.address] = 0)
    => /\ Returned
       /\ exitCode = Running
       /\ results # <<>>
       /\ LET r == Last(results) IN
            /\ r.success = FALSE
            /\ DOMAIN r = FailureFields
            /\ r.error = IF Last(calls).ok THEN ZeroBalanceError
                         ELSE CHOOSE m \in ChainErrors : TRUE
            /\ r.deployer = CurrentWallet.address

\* C1 witness: an attempt failed at a call made after the contract had been
\* deployed and its address captured.
C1_Witness ==
    /\ Returned
    /\ calls # <<>>
    /\ ~Last(calls).ok
    /\ contractAddress # Null
    /\ ~Last(results).success

\* C2: in an attempt whose balance query answered zero, the balance query is
\* the only chain call (deploy is never invoked), and the attempt has
\* returned success = false with the balance error and no contractAddress.
C2_ZeroBalanceNeverDeploys ==
    (/\ calls # <<>>
     /\ calls[1].ok
     /\ balance[CurrentWallet.address] = 0)
    => /\ calls = <<[name |-> "getBalance", ok |-> TRUE]>>
       /\ Returned
       /\ results # <<>>
       /\ ~Last(results).success
       /\ Last(results).error = ZeroBalanceError
       /\ "contractAddress" \notin DOMAIN Last(results)

\* C2 witness: a second attempt of an empty wallet has returned.
C2_Witness ==
    /\ Returned
    /\ Len(results) >= 2
    /\ calls = <<[name |-> "getBalance", ok |-> TRUE]>>
    /\ balance[CurrentWallet.address] = 0

\* the outcomes of the wallet at position w (counted from 1)
OutcomesOf(all, w) == SelectSeq(all, LAMBDA r : r.walletIndex = w)

\* C3: a failed attempt never aborts the run: a wallet returns only with
\* exactly deployCount outcomes, a run that has reached the chain exits
\* with a failure only after the summary was built, and the report counts,
\* for every wallet, as many deployments as its plan drew.
C3_EveryPlannedAttemptRuns ==
    /\ pc = "walletReturn" =>
         /\ Len(results) = deployCount
         /\ deployCount = Last(planned)
    /\ (pc = "exit" /\ chainUsed) => summary # NoSummary
    /\ ReportWritten =>
         /\ Len(planned) = Len(shuffledWallets)
         /\ report.totalDeployments = SumSeq(planned)
         /\ \A w \in 1..Len(planned) :
              Len(OutcomesOf(report.deployments, w)) = planned[w]

\* C3 witness: a report of two wallets whose first attempt failed.
C3_Witness ==
    /\ ReportWritten
    /\ Len(shuffledWallets) = 2
    /\ ~report.deployments[1].success
    /\ report.successful > 0

\* the attempts the plans drawn so far call for, in the order of execution
RECURSIVE Slots(_)
Slots(w) ==
    IF w = 0 THEN <<>>
    ELSE Slots(w - 1) \o
         [a \in 1..planned[w] |-> [walletIndex |-> w, attempt |-> a - 1]]

\* C4: the outcomes are recorded in the order of execution: the k-th outcome
\* is the one of the k-th attempt counted by wallet (in shuffled order) and
\* then by attempt index, timestamps never decrease, while a wallet is
\* processed all outcomes of the wallets before it are in allResults, and
\* the report's deployments are that sequence.
C4_OutcomesInExecutionOrder ==
    /\ LET slots == Slots(Len(planned))
           done == Outcomes
       IN  /\ Len(done) <= Len(slots)
           /\ \A k \in 1..Len(done) :
                /\ done[k].walletIndex = slots[k].walletIndex
                /\ done[k].deployNumber =
                     ((slots[k].walletIndex - 1) * 100) + slots[k].attempt + 1
                /\ done[k].deployer =
                     shuffledWallets[slots[k].walletIndex].address
                /\ k > 1 => Date(done[k - 1].timestamp)
                              <= Date(done[k].timestamp)
    /\ (InAttempt \/ Returned) =>
         /\ Len(planned) = mainI + 1
         /\ allResults = Outcomes \/ results # <<>>
         /\ Len(allResults) = SumSeq(SubSeq(planned, 1, mainI))
    /\ ReportWritten =>
         /\ report.deployments = Outcomes
         /\ Len(Outcomes) = Len(Slots(Len(shuffledWallets)))

\* C4 witness: a report of two wallets with different addresses.
C4_Witness ==
    /\ ReportWritten
    /\ Len(shuffledWallets) = 2
    /\ report.deployments[1].deployer # Last(report.deployments).deployer

\* C5: no two outcomes of a run carry the same deployNumber, and an
\* outcome's deployNumber is 100 times the wallet's 0-based position plus
\* the attempt's index plus 1.
C5_DeployNumberUnique ==
    /\ \A k, l \in 1..Len(Outcomes) :
         k # l => Outcomes[k].deployNumber # Outcomes[l].deployNumber
    /\ \A k \in 1..Len(Outcomes) :
         \E a \in 0..(MAX_DEPLOY_COUNT - 1) :
            Outcomes[k].deployNumber =
              ((Outcomes[k].walletIndex - 1) * 100) + a + 1

\* C5 witness: the second wallet has recorded its fourth outcome.
C5_Witness ==
    /\ Len(results) = MAX_DEPLOY_COUNT
    /\ mainI = 1
    /\ Len(allResults) = MAX_DEPLOY_COUNT

\* C6: in the report, successful + failed = totalDeployments = the length of
\* deployments.
C6_CountsAddUp ==
    ReportWritten =>
      /\ report.successful + report.failed = report.totalDeployments
      /\ report.totalDeployments = Len(report.deployments)

\* C6 witness: a report with successful outcomes, with and without a
\* follow-up transaction, and a failed one.
C6_Witness ==
    /\ ReportWritten
    /\ report.failed > 0
    /\ \E k, l \in 1..Len(report.deployments) :
         /\ report.deployments[k].success
         /\ report.deployments[l].success
         /\ report.deployments[k].txHash = Null
         /\ report.deployments[l].txHash # Null

\* the credentials have pairwise different addresses
DistinctAddresses ==
    \A k, l \in 1..Len(wallets) :
       k # l => wallets[k].address # wallets[l].address

\* C7: uniqueWallets in the report is at most the number of credentials, and
\* is that number when the credentials' addresses are pairwise different.
C7_UniqueWalletsBound ==
    ReportWritten =>
      /\ report.uniqueWallets <= Len(privateKeys)
      /\ DistinctAddresses => report.uniqueWallets = Len(privateKeys)

\* C7 witness: a report of two credentials with different addresses, one of
\* them with failed outcomes only.
C7_Witness ==
    /\ ReportWritten
    /\ Len(privateKeys) = 2
    /\ DistinctAddresses
    /\ \E w \in 1..2 :
         \A k \in 1..Len(report.deployments) :
            report.deployments[k].walletIndex = w
              => ~report.deployments[k].success

\* every line of pk.txt is blank or a comment
NoCredentialLine ==
    \A k \in 1..Len(pkFile) : pkFile[k] \in {"", "# note"}

\* C8: when pk.txt holds no credential, the run has exited with a non-zero
\* code as soon as the check was made: no wallet was built, no chain call
\* was made, no summary was built or written.
C8_NoCredentialsAborts ==
    (fileRead /\ NoCredentialLine /\ pc # "checkKeys")
    => /\ pc = "exit"
       /\ exitCode \notin {Running, 0}
       /\ wallets = <<>>
       /\ ~chainUsed
       /\ summary = NoSummary
       /\ report = NoSummary
       /\ writes = 0

\* C8 witness: the run has exited on a file of a blank and a comment line.
C8_Witness ==
    /\ pc = "exit"
    /\ fileRead
    /\ Len(pkFile) = 2
    /\ pkFile[1] # pkFile[2]
    /\ NoCredentialLine

\* C9: when the compiler reports an error, the process has exited with a
\* non-zero code with pk.txt unread, no chain call made and no summary.
C9_CompileFailureAborts ==
    compileFailed
    => /\ pc = "exit"
       /\ exitCode \notin {Running, 0}
       /\ ~fileRead
       /\ privateKeys = <<>>
       /\ ~chainUsed
       /\ summary = NoSummary
       /\ report = NoSummary
       /\ writes = 0

\* C9 witness: the run has exited on a compilation error.
C9_Witness ==
    /\ compileFailed
    /\ pc = "exit"
    /\ artifact = None

\* some credential is no private key
BadCredential ==
    \E k \in 1..Len(privateKeys) : ~(privateKeys[k] \in {"k1", "k2"})

\* C10: deployments.json is written at most once, and only when every
\* wallet has returned all the outcomes of its plan (the report holds them
\* all, and the process ends with code 0); a run that ended through main's
\* catch, as on a credential that is no private key, wrote no report and
\* exited non-zero.
C10_ReportOnceAtTheEnd ==
    /\ writes <= 1
    /\ ReportWritten =>
         /\ pc = "done"
         /\ exitCode = 0
         /\ mainI = Len(shuffledWallets)
         /\ Len(planned) = Len(shuffledWallets)
         /\ results = <<>>
         /\ report = summary
         /\ report.deployments = allResults
         /\ Len(allResults) = SumSeq(planned)
    /\ ~ReportWritten => report = NoSummary
    /\ pc = "exit" =>
         /\ ~ReportWritten
         /\ exitCode \notin {Running, 0}
    /\ (BadCredential /\ pc \notin {"checkKeys", "wallets"}) =>
         /\ pc = "exit"
         /\ ~chainUsed

\* C10 witness: the report of a run of two wallets is written, the last
\* outcome being the last attempt of the second wallet.
C10_Witness ==
    /\ ReportWritten
    /\ Len(shuffledWallets) = 2
    /\ Last(report.deployments).walletIndex = 2
    /\ Last(report.deployments).deployNumber = 100 + Last(planned)

\* the process has ended
Terminated == pc \in {"done", "exit"}

\* C11: every run eventually ends, and in exactly one of two ways: with
\* deployments.json written once and the exit code 0, or through main's
\* catch with a non-zero exit code and no report; a process that has ended
\* takes no further step.
C11_Terminates ==
    /\ <>Terminated
    /\ [](exitCode # Running <=> Terminated)
    /\ [](pc = "done" =>
            /\ writes = 1
            /\ report # NoSummary
            /\ exitCode = NormalExitCode)
    /\ [](pc = "exit" =>
            /\ writes = 0
            /\ report = NoSummary
            /\ exitCode \notin {Running, NormalExitCode})
    /\ [][~Terminated]_vars

\* C11 witness: a run in which a chain call was rejected has ended with the
\* report written.
C11_Witness ==
    /\ pc = "done"
    /\ exitCode = NormalExitCode
    /\ writes = 1
    /\ faults = MaxFaults

\* C12: the summary is never built from an empty outcome sequence; its
\* startTime is the timestamp of the first outcome recorded, and startTime
\* is not later than endTime.
C12_SummaryTimes ==
    /\ pc = "summary" => allResults # <<>>
    /\ summary # NoSummary =>
         /\ summary.deployments = allResults
         /\ summary.deployments # <<>>
         /\ summary.startTime = summary.deployments[1].timestamp
         /\ Date(summary.startTime) <= Date(summary.endTime)

\* C12 witness: a summary was built some countdowns after the first outcome
\* was recorded, the last outcome being later than the first.
C12_Witness ==
    /\ pc = "write"
    /\ summary # NoSummary
    /\ Date(summary.startTime) < Date(Last(summary.deployments).timestamp)
    /\ Date(summary.startTime) < Date(summary.endTime)

\* C13: the plan of every wallet has deployCount in {2, 3, 4} and
\* intervalHours in {6, 12, 24}; it is drawn anew for every wallet, and
\* whatever the earlier plans and outcomes were, every pair of the two can
\* be drawn.
C13_PlanDrawnPerWallet ==
    /\ \A w \in 1..Len(planned) :
         planned[w] \in MIN_DEPLOY_COUNT..MAX_DEPLOY_COUNT
    /\ (InAttempt \/ Returned) =>
         /\ deployCount \in {2, 3, 4}
         /\ intervalHours \in {6, 12, 24}
         /\ Len(planned) = mainI + 1
    /\ (pc = "walletLoop" /\ mainI < Len(shuffledWallets)) =>
         \A count \in {2, 3, 4}, hours \in {6, 12, 24} :
            ENABLED (/\ WalletLoop
                     /\ deployCount' = count
                     /\ intervalHours' = hours)

\* C13 witness: the second wallet runs on the plan with the most attempts
\* and the shortest interval after a first wallet whose plan had the fewest
\* attempts, and whose first attempt failed.
C13_Witness ==
    /\ InAttempt
    /\ mainI = 1
    /\ planned = <<MIN_DEPLOY_COUNT, MAX_DEPLOY_COUNT>>
    /\ deployCount = MAX_DEPLOY_COUNT
    /\ intervalHours = 6
    /\ ~allResults[1].success

\* a countdown between two attempts has just elapsed
DeployWaited == pc = "getBalance" /\ procI > 0

\* C14: every wait between two attempts of a wallet is a positive whole
\* number of seconds, at most 600 away from intervalHours * 3600.
C14_WaitWithinTenMinutes ==
    DeployWaited =>
      /\ lastWait \in Nat
      /\ lastWait > 0
      /\ lastWait >= (intervalHours * 3600) - 600
      /\ lastWait <= (intervalHours * 3600) + 600

\* C14 witness: the shortest wait there is has elapsed: six hours less ten
\* minutes.
C14_Witness ==
    /\ DeployWaited
    /\ intervalHours = 6
    /\ lastWait = 21000

\* the arrays a and b hold the same items, each as often in b as in a
SameItems(a, b) ==
    /\ Len(a) = Len(b)
    /\ \A k \in 1..Len(a) :
         Cardinality({j \in 1..Len(a) : a[j] = a[k]})
           = Cardinality({j \in 1..Len(b) : b[j] = a[k]})

\* shuffleArray has returned
Shuffled == pc = "walletLoop"

\* C15: for an array of any length, 0 and 1 included, shuffleArray returns
\* an array of the same length that holds the same items equally often, and
\* the array it was given is left as it was.
C15_ShuffleIsPermutation ==
    /\ [](Shuffled => SameItems(wallets, shuffledWallets))
    /\ [](Shuffled /\ Len(wallets) <= 1 => shuffledWallets = wallets)
    /\ [][wallets' = wallets]_vars

\* C15 witness: an array of three items, one of them repeated, was returned
\* in another order.
C15_Witness ==
    /\ Shuffled
    /\ wallets = <<1, 1, 2>>
    /\ shuffledWallets = <<2, 1, 1>>

\* the orders of n positions
Arrangements(n) ==
    {p \in [1..n -> 1..n] : \A i, j \in 1..n : i # j => p[i] # p[j]}

\* C16: whatever the array, every one of its orders (N! of them for N
\* different items) is a result shuffleArray can return.
C16_EveryOrderPossible ==
    pc = "shuffle" =>
      \A p \in Arrangements(Len(wallets)) :
         ENABLED (/\ Shuffle
                  /\ shuffledWallets' = [k \in 1..Len(wallets) |->
                                           wallets[p[k]]])

\* C16 witness: three different items were returned in the opposite order.
C16_Witness ==
    /\ Shuffled
    /\ wallets = <<1, 2, 3>>
    /\ shuffledWallets = <<3, 2, 1>>

\* the chain calls of a complete attempt, in the order of the source
CallOrder ==
    <<"getBalance", "deploy", "waitForDeployment", "getAddress", "message",
      "setMessage", "wait", "message">>

\* the call name was made in the current attempt and succeeded
Succeeded(name) ==
    \E k \in 1..Len(calls) : calls[k].name = name /\ calls[k].ok

\* C17: the chain calls of an attempt are made in one fixed order (balance
\* query, deployment, its confirmation, the address, the read-back, the
\* follow-up, its confirmation, the second read), each only after the one
\* before it succeeded; the follow-up is never submitted before the
\* deployment was confirmed and the read-back succeeded.
C17_CallsInFixedOrder ==
    /\ Len(calls) <= Len(CallOrder)
    /\ \A k \in 1..Len(calls) :
         /\ calls[k].name = CallOrder[k]
         /\ k < Len(calls) => calls[k].ok
    /\ InAttempt => \A k \in 1..Len(calls) : calls[k].ok
    /\ (pc = "setMessage" \/ \E k \in 1..Len(calls) :
                                calls[k].name = "setMessage") =>
         /\ Succeeded("deploy")
         /\ Succeeded("waitForDeployment")
         /\ Succeeded("message")
         /\ contractAddress # Null

\* C17 witness: an attempt made all eight calls and returned success.
C17_Witness ==
    /\ Returned
    /\ Len(calls) = Len(CallOrder)
    /\ Last(calls).ok
    /\ Last(results).success

\* the follow-up transactions submitted in the current attempt
FollowUps == {k \in 1..Len(calls) : calls[k].name = "setMessage"}

\* the attempt that has just returned made the calls up to the read-back,
\* all with success, and skipped the follow-up
SkippedFollowUp ==
    /\ Returned
    /\ Len(calls) = 5
    /\ \A k \in 1..Len(calls) : calls[k].ok

\* C18: an attempt submits at most one follow-up; when it skips the
\* follow-up its outcome has success = true, the contract address and a null
\* txHash; a success outcome has a non-null txHash only if exactly one
\* follow-up was submitted and confirmed.
C18_FollowUpAtMostOnce ==
    /\ Cardinality(FollowUps) <= 1
    /\ SkippedFollowUp =>
         /\ Last(results).success
         /\ Last(results).contractAddress \in ContractAddresses
         /\ Last(results).txHash = Null
    /\ (Returned /\ Last(results).success /\ Last(results).txHash # Null) =>
         /\ Cardinality(FollowUps) = 1
         /\ Succeeded("setMessage")
         /\ Succeeded("wait")
         /\ Last(results).txHash \in TxHashes

\* C18 witness: a wallet's second attempt skipped the follow-up after its
\* first attempt had made it.
C18_Witness ==
    /\ SkippedFollowUp
    /\ Len(results) = 2
    /\ results[1].success
    /\ results[1].txHash # Null
    /\ results[2].txHash = Null

\* C19: a wallet waits deployCount - 1 times between its attempts, also
\* after an attempt that failed, as on an empty wallet, and not after its
\* last attempt; a run of N wallets waits N - 1 times between wallets, 5 to
\* 30 seconds each time, and not after the last wallet.
C19_WaitsBetweenNotAfter ==
    /\ (InAttempt \/ Returned) =>
         /\ deployWaits = procI
         /\ walletWaits = mainI
    /\ Returned =>
         pc = IF procI < deployCount - 1 THEN "deployWait" ELSE "walletReturn"
    /\ pc = "walletReturn" =>
         /\ deployWaits = deployCount - 1
         /\ lastWait = 0
    /\ DeployWaited => lastWait > 0
    /\ pc = "walletLoop" =>
         /\ (0 < mainI /\ mainI < Len(shuffledWallets)) =>
              /\ lastWait \in 5..30
              /\ walletWaits = mainI
         /\ mainI = Len(shuffledWallets) =>
              /\ lastWait = 0
              /\ walletWaits = Len(shuffledWallets) - 1
    /\ pc \in {"summary", "write", "done"} =>
         walletWaits = Len(shuffledWallets) - 1

\* C19 witness: the second of two wallets, an empty one, returns from four
\* attempts after three waits, one wait between wallets having elapsed.
C19_Witness ==
    /\ pc = "walletReturn"
    /\ mainI = 1
    /\ walletWaits = 1
    /\ deployCount = MAX_DEPLOY_COUNT
    /\ deployWaits = 3
    /\ balance[CurrentWallet.address] = 0

====
